---- MODULE Spec2Model ----
(***************************************************************************)
(* A model of U2P - Upload to Present (src/app.py): the Streamlit session  *)
(* (record store, batch id, options, wizard step), the deck builder        *)
(* build_pptx_from_records, the archive builder build_zip_from_records and *)
(* the geometry helper fit_image_on_slide.                                 *)
(*                                                                         *)
(* Conventions.                                                            *)
(*  - A filename is a record [stem, ext]; ext = "" is a name without ".".  *)
(*  - Formatted text (an f-string) is the tuple of its parts; the bullet   *)
(*    character of the source is written "*".                              *)
(*  - File contents are opaque tokens; what the decoders (PIL, PyMuPDF,    *)
(*    exifread) make of a token is given by ImageInfo, PdfInfo and         *)
(*    HasCameraExif.                                                       *)
(*  - Lengths are EMU, as in python-pptx: one inch is 914400 EMU.          *)
(*  - Slides and archive entries carry a field "rec", the position in the  *)
(*    record store of the record they come from; it is not part of the     *)
(*    artifact and is only read by the properties.                         *)
(*  - The dict field upload_time (a microsecond timestamp, never read by   *)
(*    the builders) is left out; it makes every record dict distinct, so   *)
(*    list.remove(r) removes the very record r, modelled by position.      *)
(***************************************************************************)
EXTENDS Integers, Sequences, FiniteSets, TLC

VARIABLES
    records,             \* st.session_state.records
    batch_id,            \* st.session_state.batch_id
    show_titles,         \* st.session_state.show_titles
    presentation_title,  \* st.session_state.presentation_title
    current_step,        \* st.session_state.current_step
    PDF_SUPPORT,         \* module flag: did "import fitz" succeed
    now,                 \* the wall clock, in seconds
    ppt_bytes,           \* step 3: the deck of the latest script run
    zip_bytes,           \* step 3: the archive of the latest script run
    fit_args,            \* arguments of a call of fit_image_on_slide
    fit_result           \* its result

vars == <<records, batch_id, show_titles, presentation_title, current_step,
          PDF_SUPPORT, now, ppt_bytes, zip_bytes, fit_args, fit_result>>

(***************************************************************************)
(* Bounds of the model.                                                    *)
(***************************************************************************)
MaxStore == 2        \* records in the session's store
MaxRecs == 2         \* records handed to one build
MaxOrder == 2        \* largest order value handed to one build
MaxTitleRecs == 10   \* records handed to the title slide builder
MaxDim == 7          \* largest image width or height (pixels)
MaxClock == 2        \* seconds the clock runs

\* Python's None, and the outcome of a builder that an unhandled exception left.
\* Both are records, so that they compare (unequal) with every artifact.
None == [none |-> TRUE]
Failed == [error |-> TRUE]

(***************************************************************************)
(* Text and time.                                                          *)
(***************************************************************************)
\* The original filename as one string.
FullName(name) == IF name.ext = "" THEN <<name.stem>> ELSE <<name.stem, ".", name.ext>>

\* str.lower() on the extensions that occur.
Lower(ext) ==
    CASE ext = "PNG" -> "png"
      [] ext = "PDF" -> "pdf"
      [] OTHER -> ext

SecondsPerDay == 24 * 60 * 60

\* The session starts one second before midnight, so that a bounded run sees the
\* date change.
StartTime == SecondsPerDay - 1

\* strftime("%Y%m%dT%H%M%SZ"): the day and the second of the day.
timestamp_slug(t) == <<t \div SecondsPerDay, "T", t % SecondsPerDay, "Z">>

\* strftime('%B %d, %Y'): the calendar day only.
DateOf(t) == <<t \div SecondsPerDay>>

\* strftime('%Y-%m-%d %H:%M:%S')
DateTimeOf(t) == <<t \div SecondsPerDay, " ", t % SecondsPerDay>>

\* The modification time zipfile stores with an entry: MS-DOS date and time,
\* which counts the seconds in twos.
DosTimeOf(t) == <<t \div SecondsPerDay, (t % SecondsPerDay) \div 2>>

(***************************************************************************)
(* Classification by extension.                                            *)
(***************************************************************************)
ImageExts == {"png", "jpg", "jpeg", "gif", "webp", "bmp", "tiff", "mpo", "heic", "heif", "svg"}

is_image(filename) == Lower(filename.ext) \in ImageExts

is_pdf(filename) == Lower(filename.ext) = "pdf"

(***************************************************************************)
(* Geometry.  Inches takes tenths of an inch: Inches(85) is Inches(8.5).   *)
(***************************************************************************)
Inches(tenths) == tenths * 91440

\* int(n * scale) for scale = float(num) / den and n * num = p.  The real value
\* p / den is off an integer by at least 1 / den unless den divides p; the double
\* rounding of num / den then decides between p / den and one less (ulp = 1),
\* and is exact when den divides num.  fit_image_on_slide takes the pair of the
\* two outcomes, for the width and for the height.
FloatInt(p, num, den, ulp) ==
    IF p % den = 0 /\ num % den # 0 THEN (p \div den) - ulp ELSE p \div den

UsableWidth(slide_width) == slide_width - Inches(10)

UsableHeight(slide_height, has_title) ==
    IF has_title THEN slide_height - Inches(25) ELSE slide_height - Inches(10)

TopOffset(has_title) == IF has_title THEN Inches(15) ELSE Inches(5)

\* A plausible slip: the picture is centred in the usable width, not the page.
fit_left_in_margin(slide_width, disp_w) == (UsableWidth(slide_width) - disp_w) \div 2

fit_left(slide_width, disp_w) == (slide_width - disp_w) \div 2

fit_image_on_slide(slide_width, slide_height, size, has_title, ulp) ==
    LET max_w == UsableWidth(slide_width)
        max_h == UsableHeight(slide_height, has_title)
        top_offset == TopOffset(has_title)
        iw == size[1]
        ih == size[2]
        \* scale = min(max_w / iw, max_h / ih)
        byWidth == max_w * ih <= max_h * iw
        num == IF byWidth THEN max_w ELSE max_h
        den == IF byWidth THEN iw ELSE ih
        disp_w == FloatInt(iw * num, num, den, ulp[1])
        disp_h == FloatInt(ih * num, num, den, ulp[2])
        left == fit_left(slide_width, disp_w)
        top == top_offset + ((max_h - disp_h) \div 2)
    IN  [left |-> left, top |-> top, w |-> disp_w, h |-> disp_h]

\* The page of every deck: prs.slide_width, prs.slide_height.
SlideWidth == Inches(85)
SlideHeight == Inches(110)

(***************************************************************************)
(* File contents and what the decoders make of them.                       *)
(***************************************************************************)
\* PIL's Image.open: does it identify the bytes, and the format and pixel size.
\* The sizes divide the usable page exactly, so the fit has no float slack.
ImageInfo(bytes) ==
    CASE bytes = "png_3x4" -> [ok |-> TRUE, format |-> "PNG", size |-> <<3, 4>>]
      [] bytes = "jpeg_exif_3x4" -> [ok |-> TRUE, format |-> "JPEG", size |-> <<3, 4>>]
      [] bytes = "webp_4x3" -> [ok |-> TRUE, format |-> "WEBP", size |-> <<4, 3>>]
      [] bytes = "png_from_webp_4x3" -> [ok |-> TRUE, format |-> "PNG", size |-> <<4, 3>>]
      [] OTHER -> [ok |-> FALSE, format |-> "", size |-> <<0, 0>>]

\* img.convert('RGB').save(format='PNG')
SaveAsPng(bytes) == IF bytes = "webp_4x3" THEN "png_from_webp_4x3" ELSE bytes

\* PyMuPDF: does fitz.open accept the bytes, the page count, the first page whose
\* rasterization raises (0: none), and a rendered page's pixel size.
PdfInfo(bytes) ==
    CASE bytes = "pdf_1p" -> [ok |-> TRUE, pages |-> 1, bad_page |-> 0, size |-> <<3, 4>>]
      [] bytes = "pdf_2p" -> [ok |-> TRUE, pages |-> 2, bad_page |-> 0, size |-> <<3, 4>>]
      [] bytes = "pdf_3p_bad2" -> [ok |-> TRUE, pages |-> 3, bad_page |-> 2, size |-> <<3, 4>>]
      [] OTHER -> [ok |-> FALSE, pages |-> 0, bad_page |-> 0, size |-> <<0, 0>>]

\* exifread: do the bytes hold one of CAMERA_KEYS.
HasCameraExif(bytes) == bytes = "jpeg_exif_3x4"

\* pix.tobytes("png") of page p of a document.
PagePng(bytes, p) == <<"png_of_page", bytes, p>>

File(stem, ext, bytes) == [name |-> [stem |-> stem, ext |-> ext], bytes |-> bytes]

extract_file_metadata(file_bytes, filename) ==
    [is_camera |-> is_image(filename) /\ HasCameraExif(file_bytes)]

\* The dict an upload appends for file f; mime and size are display-only and left out.
NewRecord(f, order) ==
    [name |-> f.name, bytes |-> f.bytes, title |-> <<f.name.stem>>, order |-> order,
     is_camera |-> extract_file_metadata(f.bytes, f.name).is_camera]

(***************************************************************************)
(* build_pptx_from_records                                                 *)
(***************************************************************************)
SupportedFormats == {"JPEG", "PNG", "GIF", "BMP", "TIFF"}

process_image_for_powerpoint(image_bytes) ==
    LET img == ImageInfo(image_bytes)
    IN  IF img.ok /\ img.format \notin SupportedFormats
        THEN SaveAsPng(image_bytes)
        ELSE image_bytes   \* a supported format, or the except branch

\* add_footer_to_slide: the footer paragraph, if batch_id is not empty.
add_footer_to_slide(batchId) == IF batchId = <<>> THEN <<>> ELSE << <<"Batch: ", batchId>> >>

\* An optional value is a sequence of at most one element.
TitleBox(show, text) == IF show THEN <<text>> ELSE <<>>

\* sorted(records, key=order) is stable: each record is inserted behind every
\* record already placed whose order is not larger.  Positions stand for the
\* dicts, which sorted() does not copy.
RECURSIVE InsertByOrder(_, _, _)
InsertByOrder(recs, s, i) ==
    IF s = <<>> THEN <<i>>
    ELSE IF recs[Head(s)].order <= recs[i].order
         THEN <<Head(s)>> \o InsertByOrder(recs, Tail(s), i)
         ELSE <<i>> \o s

RECURSIVE SortPrefix(_, _)
SortPrefix(recs, n) ==
    IF n = 0 THEN <<>> ELSE InsertByOrder(recs, SortPrefix(recs, n - 1), n)

\* A plausible slip: the records are taken in store order.
sorted_records_unsorted(recs) == [i \in 1..Len(recs) |-> i]

sorted_records(recs) == SortPrefix(recs, Len(recs))

TitleListThreshold == 8
TitleListLimit == 6

\* A plausible slip: the file list is shown whatever the number of records.
ShowsFileList_always(n) == TRUE

ShowsFileList(n) == n <= TitleListThreshold

FileLine(rec) ==
    LET camera_display == IF rec.is_camera THEN " (Camera)" ELSE ""
    IN  IF rec.title # <<>> /\ rec.title # FullName(rec.name)
        THEN [kind |-> "file", text |-> <<"* ", rec.title, " - ", FullName(rec.name), camera_display>>]
        ELSE [kind |-> "file", text |-> <<"* ", FullName(rec.name), camera_display>>]

Min(a, b) == IF a < b THEN a ELSE b

TitleSlide(recs, batchId, title, t) ==
    LET n == Len(recs)
        head == << [kind |-> "info", text |-> <<"Generated by U2P - Upload to Present">>],
                   [kind |-> "batch", text |-> <<"Batch ID: ", batchId, " * ", DateOf(t)>>],
                   [kind |-> "count", text |-> <<"Total Files: ", n>>] >>
        list == IF ShowsFileList(n)
                THEN << [kind |-> "header", text |-> <<"Files Included:">>] >>
                     \o [i \in 1..Min(n, TitleListLimit) |-> FileLine(recs[i])]
                     \o (IF n > TitleListLimit
                         THEN << [kind |-> "more",
                                  text |-> <<"... and ", n - TitleListLimit, " more files">>] >>
                         ELSE <<>>)
                ELSE << [kind |-> "header", text |-> <<"Files Included: ", n, " documents">>] >>
    IN  [kind |-> "title", rec |-> 0, page |-> 0, title |-> <<title>>, picture |-> <<>>,
         body |-> head \o list, footer |-> <<>>]

Picture(data, size, has_title) ==
    << [data |-> data,
        box |-> fit_image_on_slide(SlideWidth, SlideHeight, size, has_title, <<0, 0>>)] >>

\* The image branch: the slide is added first, the picture only if the bytes
\* decode; a record whose bytes do not decode is appended to others.
ImageBranch(rec, i, showTitles, batchId) ==
    LET processed_data == process_image_for_powerpoint(rec.bytes)
        img == ImageInfo(processed_data)
    IN  [slides |-> << [kind |-> "image", rec |-> i, page |-> 0,
                        title |-> TitleBox(showTitles, rec.title),
                        picture |-> IF img.ok THEN Picture(processed_data, img.size, showTitles)
                                    ELSE <<>>,
                        body |-> <<>>, footer |-> add_footer_to_slide(batchId)] >>,
         others |-> IF img.ok THEN <<>> ELSE <<i>>]

PageSlide(rec, i, doc, p, showTitles, batchId) ==
    [kind |-> "page", rec |-> i, page |-> p,
     title |-> TitleBox(showTitles,
                        IF doc.pages > 1 THEN <<rec.title, " (Page ", p, ")">> ELSE rec.title),
     picture |-> Picture(PagePng(rec.bytes, p), doc.size, showTitles),
     body |-> <<>>, footer |-> add_footer_to_slide(batchId)]

\* The PDF branch: one slide per page, in page order, up to the first page that
\* raises; any exception appends the record to others.
PdfBranch(rec, i, showTitles, batchId) ==
    LET doc == PdfInfo(rec.bytes)
        rendered == IF ~doc.ok THEN 0
                    ELSE IF doc.bad_page = 0 THEN doc.pages ELSE doc.bad_page - 1
        raised == ~doc.ok \/ doc.bad_page # 0
    IN  [slides |-> [p \in 1..rendered |-> PageSlide(rec, i, doc, p, showTitles, batchId)],
         others |-> IF raised THEN <<i>> ELSE <<>>]

RecordBranch(rec, i, showTitles, batchId, pdfSupport) ==
    IF is_image(rec.name) THEN ImageBranch(rec, i, showTitles, batchId)
    ELSE IF is_pdf(rec.name) /\ pdfSupport THEN PdfBranch(rec, i, showTitles, batchId)
    ELSE [slides |-> <<>>, others |-> <<i>>]

\* for rec in sorted_records: the slides and the others list after the first k.
RECURSIVE RecordLoop(_, _, _, _, _, _)
RecordLoop(recs, order, k, showTitles, batchId, pdfSupport) ==
    IF k = 0 THEN [slides |-> <<>>, others |-> <<>>]
    ELSE LET before == RecordLoop(recs, order, k - 1, showTitles, batchId, pdfSupport)
             this == RecordBranch(recs[order[k]], order[k], showTitles, batchId, pdfSupport)
         IN  [slides |-> before.slides \o this.slides,
              others |-> before.others \o this.others]

AttachedSlide(recs, others, batchId) ==
    [kind |-> "attached", rec |-> 0, page |-> 0, title |-> << <<"Attached Files">> >>,
     picture |-> <<>>,
     body |-> [j \in 1..Len(others) |->
                  [kind |-> "bullet", rec |-> others[j],
                   text |-> <<"* ", FullName(recs[others[j]].name)>>]],
     footer |-> add_footer_to_slide(batchId)]

CoreProperties(title, t) ==
    IF title = <<>> THEN <<>>
    ELSE << [title |-> title, author |-> "U2P - Upload to Present",
             subject |-> <<"Document Collection - ", title>>,
             keywords |-> "U2P, Document Collection, Presentation",
             category |-> "Document Collection",
             comments |-> <<"Generated by U2P on ", DateTimeOf(t)>>] >>

build_pptx_from_records(recs, showTitles, batchId, title, pdfSupport, t) ==
    LET order == sorted_records(recs)
        loop == RecordLoop(recs, order, Len(recs), showTitles, batchId, pdfSupport)
    IN  [core |-> CoreProperties(title, t),
         slides |-> (IF title # <<>> THEN <<TitleSlide(recs, batchId, title, t)>> ELSE <<>>)
                    \o loop.slides
                    \o (IF loop.others # <<>>
                        THEN <<AttachedSlide(recs, loop.others, batchId)>> ELSE <<>>)]

(***************************************************************************)
(* build_zip_from_records                                                  *)
(***************************************************************************)
\* ZIP_DEFLATED and its inverse.
Deflate(bytes) == <<"deflated", bytes>>
Inflate(data) == data[2]

ArcName(batchId, name) == <<batchId, "/", FullName(name)>>

\* zf.writestr(name, data) with a str name stamps the entry with the time of the call.
build_zip_from_records(recs, batchId, t) ==
    [entries |->
        [i \in 1..Len(recs) |->
            [rec |-> i, filename |-> ArcName(batchId, recs[i].name),
             date_time |-> DosTimeOf(t), data |-> Deflate(recs[i].bytes)]]]

\* ZipFile.read(name): zipfile keeps one entry per name in NameToInfo, the one
\* written last.
ZipHas(archive, filename) ==
    \E k \in 1..Len(archive.entries) : archive.entries[k].filename = filename

ZipRead(archive, filename) ==
    LET e == archive.entries
        last == CHOOSE k \in 1..Len(e) :
                    /\ e[k].filename = filename
                    /\ \A m \in (k + 1)..Len(e) : e[m].filename # filename
    IN  Inflate(e[last].data)

(***************************************************************************)
(* The session: one action per button or widget.  A click runs the script  *)
(* once; the run ends at st.rerun().  The variables ppt_bytes and          *)
(* zip_bytes are the locals of the latest run of the step 3 section (the   *)
(* session keys of the same names are set to None and never written).      *)
(***************************************************************************)
\* The files a user selects, the titles typed, the presentation titles typed.
UploadFiles == {File("a", "png", "png_3x4")}
TitleInputs == {<<"Intro">>}
PresentationTitles == {<<>>, <<"Deck">>}

RECURSIVE SeqsUpTo(_, _)
SeqsUpTo(S, n) ==
    IF n = 0 THEN {<<>>}
    ELSE LET shorter == SeqsUpTo(S, n - 1)
         IN  shorter \cup {Append(s, x) : s \in {q \in shorter : Len(q) = n - 1}, x \in S}

Built(out) == out # None /\ out # Failed

NoFit == UNCHANGED <<fit_args, fit_result>>

\* The clock: a second passes.
Tick ==
    /\ now < StartTime + MaxClock
    /\ now' = now + 1
    /\ UNCHANGED <<records, batch_id, show_titles, presentation_title, current_step,
                   PDF_SUPPORT, ppt_bytes, zip_bytes>>
    /\ NoFit

\* Leaving the step 3 section drops its locals.
GoTo(step) ==
    /\ current_step' = step
    /\ ppt_bytes' = None
    /\ zip_bytes' = None
    /\ UNCHANGED <<records, batch_id, show_titles, presentation_title, PDF_SUPPORT, now>>
    /\ NoFit

\* The three buttons of the step navigation.
NavStep1 == current_step # 1 /\ GoTo(1)

NavStep2 == current_step # 2 /\ Len(records) # 0 /\ GoTo(2)

NavStep3 == current_step # 3 /\ Len(records) # 0 /\ GoTo(3)

\* for f in uploaded: the dicts appended to a store of n records.
RECURSIVE AppendUploaded(_, _, _)
AppendUploaded(recs, uploaded, new_count) ==
    IF uploaded = <<>> THEN recs
    ELSE AppendUploaded(Append(recs, NewRecord(Head(uploaded), Len(recs) + new_count)),
                        Tail(uploaded), new_count + 1)

\* A plausible slip: every upload stamps the batch anew.
AddFiles_new_batch_id ==
    /\ current_step = 1
    /\ \E uploaded \in SeqsUpTo(UploadFiles, MaxStore - Len(records)) :
          /\ uploaded # <<>>
          /\ records' = AppendUploaded(records, uploaded, 0)
    /\ batch_id' = timestamp_slug(now)
    /\ current_step' = 2
    /\ UNCHANGED <<show_titles, presentation_title, PDF_SUPPORT, now, ppt_bytes, zip_bytes>>
    /\ NoFit

\* Step 1, "Next: Organize Files" with files selected.
AddFiles ==
    /\ current_step = 1
    /\ \E uploaded \in SeqsUpTo(UploadFiles, MaxStore - Len(records)) :
          /\ uploaded # <<>>
          /\ records' = AppendUploaded(records, uploaded, 0)
    /\ current_step' = 2
    /\ UNCHANGED <<batch_id, show_titles, presentation_title, PDF_SUPPORT, now,
                   ppt_bytes, zip_bytes>>
    /\ NoFit

\* Step 1, "Start new batch".
ResetBatch ==
    /\ current_step = 1
    /\ batch_id' = timestamp_slug(now)
    /\ records' = <<>>
    /\ UNCHANGED <<show_titles, presentation_title, current_step, PDF_SUPPORT, now,
                   ppt_bytes, zip_bytes>>
    /\ NoFit

\* Step 1, "Next: Organize Files" under the list of current files.
NextOrganize ==
    /\ current_step = 1
    /\ records # <<>>
    /\ GoTo(2)

\* Step 2, the widgets that edit the options and the records.
Organize(recs, titles, ptitle) ==
    /\ current_step = 2
    /\ records' = recs
    /\ show_titles' = titles
    /\ presentation_title' = ptitle
    /\ UNCHANGED <<batch_id, current_step, PDF_SUPPORT, now, ppt_bytes, zip_bytes>>
    /\ NoFit

ShowTitlesCheckbox == Organize(records, ~show_titles, presentation_title)

ResetOrder ==
    Organize([i \in 1..Len(records) |-> [records[i] EXCEPT !.order = i - 1]],
             show_titles, presentation_title)

PresentationTitleInput ==
    \E t \in PresentationTitles : t # presentation_title /\ Organize(records, show_titles, t)

\* The expander of sorted position i edits the dict sorted_records[i].
SlideTitleInput ==
    \E i \in 1..Len(records), t \in TitleInputs :
        LET r == sorted_records(records)[i]
        IN  /\ records[r].title # t
            /\ Organize([records EXCEPT ![r].title = t], show_titles, presentation_title)

SwapOrder(recs, a, b) ==
    [recs EXCEPT ![a].order = recs[b].order, ![b].order = recs[a].order]

MoveUp ==
    \E i \in 2..Len(records) :
        LET s == sorted_records(records)
        IN  Organize(SwapOrder(records, s[i], s[i - 1]), show_titles, presentation_title)

MoveDown ==
    \E i \in 1..(Len(records) - 1) :
        LET s == sorted_records(records)
        IN  Organize(SwapOrder(records, s[i], s[i + 1]), show_titles, presentation_title)

RemoveAt(recs, r) == [k \in 1..(Len(recs) - 1) |-> IF k < r THEN recs[k] ELSE recs[k + 1]]

Remove ==
    \E i \in 1..Len(records) :
        Organize(RemoveAt(records, sorted_records(records)[i]), show_titles, presentation_title)

BackToUpload == current_step = 2 /\ GoTo(1)

NextDownload == current_step = 2 /\ GoTo(3)

\* A run of the step 3 section: the deck is built, then the archive.  An
\* exception that leaves a builder (the memory limit of the host) ends the run.
RenderDownload(ppt_fails, zip_fails) ==
    /\ current_step = 3
    /\ ppt_bytes' = IF ppt_fails THEN Failed
                    ELSE build_pptx_from_records(records, show_titles, batch_id,
                                                 presentation_title, PDF_SUPPORT, now)
    /\ zip_bytes' = IF ppt_fails THEN None
                    ELSE IF zip_fails THEN Failed
                    ELSE build_zip_from_records(records, batch_id, now)
    /\ UNCHANGED <<records, batch_id, show_titles, presentation_title, current_step,
                   PDF_SUPPORT, now>>
    /\ NoFit

\* Step 3, the two buttons under the downloads: the run reaches them only
\* after both builders returned.
BackToOrganize ==
    /\ current_step = 3
    /\ Built(ppt_bytes) /\ Built(zip_bytes)
    /\ GoTo(2)

StartNewBatch ==
    /\ current_step = 3
    /\ Built(ppt_bytes) /\ Built(zip_bytes)
    /\ batch_id' = timestamp_slug(now)
    /\ records' = <<>>
    /\ current_step' = 1
    /\ ppt_bytes' = None
    /\ zip_bytes' = None
    /\ UNCHANGED <<show_titles, presentation_title, PDF_SUPPORT, now>>
    /\ NoFit

Init ==
    /\ now = StartTime
    /\ batch_id = timestamp_slug(now)
    /\ records = <<>>
    /\ show_titles = FALSE
    /\ current_step = 1
    /\ ppt_bytes = None
    /\ zip_bytes = None
    /\ presentation_title = <<>>
    /\ PDF_SUPPORT \in BOOLEAN
    /\ fit_args = None
    /\ fit_result = None

Next ==
    \/ Tick
    \/ NavStep1 \/ NavStep2 \/ NavStep3
    \/ AddFiles \/ ResetBatch \/ NextOrganize
    \/ ShowTitlesCheckbox \/ ResetOrder \/ PresentationTitleInput \/ SlideTitleInput
    \/ MoveUp \/ MoveDown \/ Remove
    \/ BackToUpload \/ NextDownload
    \/ \E ppt_fails \in BOOLEAN, zip_fails \in BOOLEAN : RenderDownload(ppt_fails, zip_fails)
    \/ BackToOrganize \/ StartNewBatch

Spec == Init /\ [][Next]_vars

(***************************************************************************)
(* SpecBuild: the step 3 section on bounded record stores.                 *)
(***************************************************************************)
BuildFiles ==
    {File("a", "png", "png_3x4"), File("a", "png", "junk"), File("b", "PDF", "pdf_2p"),
     File("c", "pdf", "pdf_3p_bad2"), File("d", "txt", "junk")}

BuildRecords == {NewRecord(f, o) : f \in BuildFiles, o \in 0..MaxOrder}

InitBuild ==
    /\ now = StartTime
    /\ batch_id = timestamp_slug(now)
    /\ records \in SeqsUpTo(BuildRecords, MaxRecs)
    /\ show_titles \in BOOLEAN
    /\ presentation_title \in PresentationTitles
    /\ PDF_SUPPORT \in BOOLEAN
    /\ current_step = 3
    /\ ppt_bytes = None
    /\ zip_bytes = None
    /\ fit_args = None
    /\ fit_result = None

NextBuild == RenderDownload(FALSE, FALSE)

SpecBuild == InitBuild /\ [][NextBuild]_vars

(***************************************************************************)
(* SpecTitle: the title slide on stores of up to MaxTitleRecs records.     *)
(***************************************************************************)
TitleFiles == {File("f", "jpg", "jpeg_exif_3x4"), File("notes", "", "junk")}

RECURSIVE Uploads(_)
\* The stores that uploads of single files make: the orders are the positions.
Uploads(n) ==
    IF n = 0 THEN {<<>>}
    ELSE {Append(s, NewRecord(f, n - 1)) : s \in Uploads(n - 1), f \in TitleFiles}

InitTitle ==
    /\ now = StartTime
    /\ batch_id = timestamp_slug(now)
    /\ \E n \in 0..MaxTitleRecs : records \in Uploads(n)
    /\ show_titles = FALSE
    /\ presentation_title \in PresentationTitles
    /\ PDF_SUPPORT = TRUE
    /\ current_step = 3
    /\ ppt_bytes = None
    /\ zip_bytes = None
    /\ fit_args = None
    /\ fit_result = None

NextTitle == RenderDownload(FALSE, FALSE)

SpecTitle == InitTitle /\ [][NextTitle]_vars

(***************************************************************************)
(* Properties of the deck and the archive.                                 *)
(***************************************************************************)
IsImageRecord(i) == is_image(records[i].name)

ImageRecords == {i \in 1..Len(records) : IsImageRecord(i)}

\* Documents take the PDF branch only when PyMuPDF could be imported.
IsPdfRecord(i) == ~is_image(records[i].name) /\ is_pdf(records[i].name) /\ PDF_SUPPORT

Decodes(i) == ImageInfo(records[i].bytes).ok

PageCount(i) == PdfInfo(records[i].bytes).pages

PdfRecords == {i \in 1..Len(records) : IsPdfRecord(i)}

\* The page counts of the PDF records among the first n records, summed.
RECURSIVE PdfPagesUpTo(_)
PdfPagesUpTo(n) ==
    IF n = 0 THEN 0
    ELSE PdfPagesUpTo(n - 1) + (IF IsPdfRecord(n) THEN PageCount(n) ELSE 0)

SlidesOfRecord(deck, i) ==
    {k \in 1..Len(deck.slides) : deck.slides[k].kind \in {"image", "page"} /\ deck.slides[k].rec = i}

HasAttachedSlide(deck) ==
    deck.slides # <<>> /\ deck.slides[Len(deck.slides)].kind = "attached"

\* The records listed on the trailing "Attached Files" slide.
Attached(deck) ==
    IF HasAttachedSlide(deck)
    THEN LET body == deck.slides[Len(deck.slides)].body
         IN  {body[j].rec : j \in 1..Len(body)}
    ELSE {}

\* C1: the number of slides of the deck is (1 if presentation_title is not empty)
\* + (the number of image records whose bytes decode) + (the sum over the PDF
\* records of their page count) + (1 if a record ended in the fallback list).
C1_SlideCount ==
    Built(ppt_bytes) =>
        Len(ppt_bytes.slides) =
            (IF presentation_title # <<>> THEN 1 ELSE 0)
            + Cardinality({i \in ImageRecords : Decodes(i)})
            + PdfPagesUpTo(Len(records))
            + (IF Attached(ppt_bytes) # {} THEN 1 ELSE 0)

\* C2: an image record whose bytes cannot be decoded gets no slide and is listed
\* on the "Attached Files" slide, every decodable image still gets its one slide,
\* and the build returns.
C2_CorruptImageNoSlide ==
    Built(ppt_bytes) =>
        \A i \in ImageRecords :
            IF Decodes(i)
            THEN Cardinality(SlidesOfRecord(ppt_bytes, i)) = 1
            ELSE SlidesOfRecord(ppt_bytes, i) = {} /\ i \in Attached(ppt_bytes)

\* C3: the archive has one entry per record and, for every record, reading the
\* entry named <batch_id>/<name> gives that record's bytes, also when two records
\* have the same name.
C3_ArchiveRoundTrip ==
    Built(zip_bytes) =>
        /\ Len(zip_bytes.entries) = Len(records)
        /\ \A i \in 1..Len(records) :
              /\ ZipHas(zip_bytes, ArcName(batch_id, records[i].name))
              /\ ZipRead(zip_bytes, ArcName(batch_id, records[i].name)) = records[i].bytes

\* C4: the slides of the records appear in non-decreasing order of their
\* records' order values, and of two records with the same order the slides of the
\* one that is earlier in the store come first; the pages of one document stay
\* together and in page order.
C4_OrderingStable ==
    Built(ppt_bytes) =>
        LET s == ppt_bytes.slides
            own == {k \in 1..Len(s) : s[k].kind \in {"image", "page"}}
        IN  \A p \in own, q \in own :
                p < q =>
                    /\ records[s[p].rec].order <= records[s[q].rec].order
                    /\ records[s[p].rec].order = records[s[q].rec].order => s[p].rec <= s[q].rec
                    /\ s[p].rec = s[q].rec => s[p].page < s[q].page

\* A deck has been built from two records with the same order, the first with a
\* slide and the second, a document, with two.
C4_Witness ==
    /\ Built(ppt_bytes)
    /\ Len(records) = 2
    /\ records[1].order = records[2].order
    /\ SlidesOfRecord(ppt_bytes, 1) # {}
    /\ Cardinality(SlidesOfRecord(ppt_bytes, 2)) = 2

\* C10: a PDF record never both has page slides in the deck and is listed on the
\* "Attached Files" slide.
C10_DocumentFailureAtomic ==
    Built(ppt_bytes) =>
        \A i \in PdfRecords :
            ~(SlidesOfRecord(ppt_bytes, i) # {} /\ i \in Attached(ppt_bytes))

(***************************************************************************)
(* Properties of the title slide.                                          *)
(***************************************************************************)
TitleBody == ppt_bytes.slides[1].body

FileLines == {j \in 1..Len(TitleBody) : TitleBody[j].kind = "file"}

\* The body ends with the first `shown` records' lines and the line that counts
\* the rest.
ListTruncatedTo(shown) ==
    LET n == Len(records)
        b == TitleBody
    IN  /\ Cardinality(FileLines) = shown
        /\ b[Len(b)].kind = "more"
        /\ b[Len(b)].text[2] = n - shown
        /\ FileLines = (Len(b) - shown)..(Len(b) - 1)

\* C5 as claimed: with a presentation title and N > 6 records, the title slide's
\* file list shows at most 6 filenames followed by a line that counts the N - 6
\* others; with 10 records, 6 filenames and "and 4 more".
C5_TruncationAsClaimed ==
    (Built(ppt_bytes) /\ presentation_title # <<>> /\ Len(records) > TitleListLimit)
        => ListTruncatedTo(TitleListLimit)

\* C5: with a presentation title and N records, 6 < N <= 8, the title slide's
\* file list shows the first 6 filenames followed by the line
\* "... and (N-6) more files"; with more than 8 records (10, say) it shows no
\* filename and no such line, only "Files Included: N documents".
C5_TruncationUpToThreshold ==
    (Built(ppt_bytes) /\ presentation_title # <<>> /\ Len(records) > TitleListLimit)
        => IF Len(records) <= TitleListThreshold
           THEN ListTruncatedTo(TitleListLimit)
           ELSE /\ FileLines = {}
                /\ \A j \in 1..Len(TitleBody) : TitleBody[j].kind # "more"
                /\ TitleBody[Len(TitleBody)].text =
                       <<"Files Included: ", Len(records), " documents">>

C5_Witness ==
    /\ Built(ppt_bytes)
    /\ presentation_title # <<>>
    /\ Len(records) = TitleListThreshold
    /\ TitleBody[Len(TitleBody)].text = <<"... and ", 2, " more files">>

(***************************************************************************)
(* Properties of the session.                                              *)
(***************************************************************************)
\* C6: in the download step a failure of one builder leaves the other output
\* built and offered: when build_pptx_from_records fails, build_zip_from_records
\* has still run, and the other way round.
C6_OutputsIndependent ==
    /\ ppt_bytes = Failed => zip_bytes # None
    /\ zip_bytes = Failed => Built(ppt_bytes)

\* C7: batch_id changes only in a start-new-batch action, and every
\* start-new-batch action (of step 1 or of step 3) empties the record store and
\* sets batch_id to a slug generated at that moment.
C7_BatchIdLifecycle ==
    [][ /\ batch_id' # batch_id => (ResetBatch \/ StartNewBatch)
        /\ (ResetBatch \/ StartNewBatch) =>
               (records' = <<>> /\ batch_id' = timestamp_slug(now)) ]_vars

\* A new batch has been started, later than the session: the store is empty and
\* the batch id is no more the session's first.
C7_Witness ==
    /\ batch_id # timestamp_slug(StartTime)
    /\ batch_id = timestamp_slug(now)
    /\ records = <<>>
    /\ current_step = 1

\* C9: two builds in the download step from an unchanged store and unchanged
\* options, at two wall-clock times, give the same archive, byte for byte, and
\* decks with the same slides; only the deck's metadata may differ.
C9_BuildIdempotent ==
    [][ ( /\ Built(ppt_bytes) /\ Built(zip_bytes)
          /\ Built(ppt_bytes') /\ Built(zip_bytes')
          /\ UNCHANGED <<records, show_titles, batch_id, presentation_title>> )
        => (zip_bytes' = zip_bytes /\ ppt_bytes'.slides = ppt_bytes.slides) ]_vars

(***************************************************************************)
(* Properties of the order values.                                         *)
(***************************************************************************)
IsFileLine(line) == line.kind = "file"

\* The title slide's file list, top to bottom.
TitleFileList == SelectSeq(TitleBody, IsFileLine)

\* The records of the deck's image and page slides, in slide order, each once.
RECURSIVE Dedup(_)
Dedup(seq) ==
    IF seq = <<>> THEN <<>>
    ELSE LET front == Dedup(SubSeq(seq, 1, Len(seq) - 1))
             last == seq[Len(seq)]
         IN  IF \E j \in 1..Len(front) : front[j] = last THEN front
             ELSE Append(front, last)

IsRecordSlide(slide) == slide.kind \in {"image", "page"}

SlideRecordOrder ==
    LET rs == SelectSeq(ppt_bytes.slides, IsRecordSlide)
    IN  Dedup([j \in 1..Len(rs) |-> rs[j].rec])

\* C11 as claimed: whenever the title slide shows a file list, its entries are
\* the first (at most 6) records of the batch in ascending order value, ties by
\* insertion order, which is the sequence in which those records' slides appear
\* in the deck, after any sequence of reorder-swaps.
C11_TitleListInProcessingOrder ==
    (Built(ppt_bytes) /\ presentation_title # <<>> /\ TitleFileList # <<>>)
        => LET s == sorted_records(records)
               shown == Min(Len(records), TitleListLimit)
           IN  /\ TitleFileList = [i \in 1..shown |-> FileLine(records[s[i]])]
               /\ \A i \in 1..Len(SlideRecordOrder) :
                      i <= shown =>
                          TitleFileList[i] = FileLine(records[SlideRecordOrder[i]])

\* C12 as claimed: after any sequence of uploads, removes and reorder-swaps,
\* every record a further upload adds gets an order value strictly greater than
\* that of every record already in the store, and the uploaded files keep their
\* upload sequence.
C12_AppendPlacesLast ==
    [][ (current_step = 1 /\ Len(records') > Len(records))
        => LET old == 1..Len(records)
               added == (Len(records) + 1)..Len(records')
           IN  /\ \A k \in old : records'[k] = records[k]
               /\ \A a \in added : \A k \in old : records'[a].order > records[k].order
               /\ \A a, b \in added : a < b => records'[a].order < records'[b].order ]_vars

Exchange(s, i, j) == [s EXCEPT ![i] = s[j], ![j] = s[i]]

\* C13 as claimed: in any reachable store state, move-up on the record at sorted
\* position i > 1 (move-down at i < n) gives a processing order in which that
\* record and its neighbour have exchanged positions and every other record
\* keeps its position, also when records have equal order values.
C13_SwapMovesOnePosition ==
    current_step = 2
        => LET s == sorted_records(records)
               n == Len(records)
           IN  /\ \A i \in 2..n :
                      sorted_records(SwapOrder(records, s[i], s[i - 1]))
                          = Exchange(s, i, i - 1)
               /\ \A i \in 1..(n - 1) :
                      sorted_records(SwapOrder(records, s[i], s[i + 1]))
                          = Exchange(s, i, i + 1)

\* C14 as claimed: in every reachable session state current_step is 2 or 3 only
\* if the record store is non-empty, and the deck and the archive are never
\* built from an empty store.
C14_WizardGuard ==
    /\ current_step \in {2, 3} => records # <<>>
    /\ (Built(ppt_bytes) \/ Built(zip_bytes)) => records # <<>>

(***************************************************************************)
(* SpecFit: fit_image_on_slide on bounded inputs.                          *)
(***************************************************************************)
\* Page sizes in tenths of an inch: the deck's, and python-pptx's default.
PageSizes == {<<85, 110>>, <<100, 75>>}

FitInputs ==
    [page : PageSizes, has_title : BOOLEAN,
     size : (1..MaxDim) \X (1..MaxDim), ulp : {0, 1} \X {0, 1}]

InitFit ==
    /\ now = StartTime
    /\ batch_id = timestamp_slug(now)
    /\ records = <<>>
    /\ show_titles = FALSE
    /\ presentation_title = <<>>
    /\ current_step = 1
    /\ PDF_SUPPORT = TRUE
    /\ ppt_bytes = None
    /\ zip_bytes = None
    /\ fit_args \in FitInputs
    /\ fit_result = None

Fit ==
    /\ fit_result = None
    /\ fit_result' = fit_image_on_slide(Inches(fit_args.page[1]), Inches(fit_args.page[2]),
                                        fit_args.size, fit_args.has_title, fit_args.ulp)
    /\ UNCHANGED <<records, batch_id, show_titles, presentation_title, current_step,
                   PDF_SUPPORT, now, ppt_bytes, zip_bytes, fit_args>>

NextFit == Fit

SpecFit == InitFit /\ [][NextFit]_vars

Abs(x) == IF x < 0 THEN -x ELSE x

\* C8: for every page size, has_title and content size with positive width and
\* height, the rectangle fit_image_on_slide returns is no wider than the usable
\* width and no taller than the usable height, keeps the content's aspect ratio up
\* to the integer rounding of each dimension, is horizontally centred in the full
\* page width up to rounding, and is vertically centred inside the usable band
\* [top_offset, top_offset + usable height]; the scale being the largest that
\* fits, one of the two dimensions fills the usable region.
C8_FitBounds ==
    fit_result # None =>
        LET sw == Inches(fit_args.page[1])
            sh == Inches(fit_args.page[2])
            max_w == UsableWidth(sw)
            max_h == UsableHeight(sh, fit_args.has_title)
            top_offset == TopOffset(fit_args.has_title)
            iw == fit_args.size[1]
            ih == fit_args.size[2]
            r == fit_result
            above == r.top - top_offset
            below == (top_offset + max_h) - (r.top + r.h)
        IN  /\ r.w <= max_w /\ r.h <= max_h
            /\ r.w >= 0 /\ r.h >= 0
            \* each dimension is within one unit of the exact scaled value
            /\ Abs(r.w * ih - r.h * iw) <= (IF iw > ih THEN iw ELSE ih)
            \* one of the two dimensions fills the usable region (up to rounding)
            /\ (r.w >= max_w - 1 \/ r.h >= max_h - 1)
            /\ Abs((sw - r.w) - 2 * r.left) <= 1
            /\ above >= 0 /\ below >= 0
            /\ Abs(above - below) <= 1

C8_Witness ==
    /\ fit_result # None
    /\ fit_args.has_title
    /\ fit_args.size = <<7, 3>>
    /\ fit_args.ulp = <<1, 1>>
    /\ fit_result.w = UsableWidth(Inches(fit_args.page[1])) - 1

====
